---- MODULE Spec2Model ----
(***************************************************************************)
(* Model of lsst.ts.ess.ringss: SqlalchemyDataClient (connection handle,   *)
(* retrying query executor, poll cycle) and RingssDataClient (query text,  *)
(* row mapper, simulated row).                                             *)
(*                                                                         *)
(* Time is counted in whole ticks.  Every timestamp the client sees comes  *)
(* from a datetime (Time.now(), datetime.utcnow(), a DATETIME/TEXT column),*)
(* so Time(...) and Time.datetime are exact on these values and both are   *)
(* the same integer here; tai_from_utc is modelled as the TAI-UTC offset.  *)
(*                                                                         *)
(* The host (BaseReadLoopDataClient of ts_ess_common, not part of this     *)
(* repository) constructs the client, calls connect, calls read_data again *)
(* and again (also after a cycle that raised), cancels the running task at *)
(* a suspension point on stop, and calls disconnect.                       *)
(***************************************************************************)
EXTENDS Integers, Sequences, FiniteSets, TLC

\* ---------------------------------------------------------------- bounds
\* Largest clock value / source timestamp.
MaxTime == 2
\* Number of rows the source can hold (their star numbers are 1..MaxRows).
MaxRows == 2
\* Number of read_data invocations in one run.
MaxCycles == 2

\* ------------------------------------------------------- program constants
\* @backoff.on_exception(backoff.expo, OperationalError, max_tries=2)
MaxTries_three == 2 + 1
MaxTries_one == 2 - 1
MaxTries == 2

\* star=1234 of get_simulation_data
SimStar == 1234

\* random.randint(1, 6)
DieSides == 6

\* ------------------------------------------------------------------ state
VARIABLES
    simulation_mode,   \* 0 live, 1 simulation (constructor argument)
    engine,            \* self.engine: "None" or "Engine"
    pool,              \* pooled connections of the engine: "none", "open",
                       \* "dropped" (a cancelled query left one broken), "disposed"
    last_timestamp,    \* self.last_timestamp, the watermark
    wrote_event,       \* self.wrote_event (asyncio.Event of the base class)
    now,               \* wall clock
    db,                \* rows of the source table: records [star, time]
    pc,                \* position of the read_data coroutine
    tries,             \* attempts made by the backoff wrapper in this cycle
    rows,              \* rows of the result set not yet handed to process
    emitted,           \* records written through evt_ringssMeasurement, in order
    \* history variables (observations, never read by the program)
    cycle,             \* number of read_data invocations so far
    t0,                \* parameter bound by the latest query attempt
    result,            \* result set returned in this cycle
    returned,          \* every row some query has returned
    outcome,           \* how the latest read_data ended
    nfail,             \* OperationalErrors raised by attempts of this cycle
    nhard,             \* other errors raised by attempts of this cycle
    nresult,           \* result sets obtained in this cycle
    reached_db,        \* statements of this cycle that reached the source
    wm0,               \* watermark when this cycle began
    em0,               \* Len(emitted) when this cycle began
    wm_sleep,          \* watermark when the sleep of this cycle began
    em_sleep,          \* Len(emitted) when the sleep of this cycle began
    stop_phase,        \* suspension point the stop signal hit, "none" before
    run_task,          \* the host's task that calls read_data: "active", "cancelled"
    t_init,            \* the watermark set by __init__
    \* configuration and connection target
    environ,           \* os.environ: value of each variable, NoValue when unset
    db_uri,            \* self.db_uri, the resolved connection URI
    engine_uri,        \* URI the current engine was created with, << >> without engine
    disconnect_result, \* how the latest disconnect ended: "none", "ok", "AttributeError"
    \* history variables of the connection life cycle and of the cycle
    environ_init,      \* os.environ when the client was constructed
    lifecycle,         \* "new", then "connected" / "disconnected" by the latest of the two calls
    ndisc,             \* disconnects since the latest other call on the client (at most 2)
    after_disc,        \* client state left by the first of these disconnects
    slept,             \* sleeps of the poll interval begun in this cycle
    binds              \* values bound as :t0 by the attempts of this cycle

vars == << simulation_mode, engine, pool, last_timestamp, wrote_event, now, db,
           pc, tries, rows, emitted, cycle, t0, result, returned, outcome,
           nfail, nhard, nresult, reached_db, wm0, em0, wm_sleep, em_sleep,
           stop_phase, run_task, t_init, environ, db_uri, engine_uri,
           disconnect_result, environ_init, lifecycle, ndisc, after_disc, slept,
           binds >>

\* ---------------------------------------------------------------- helpers
Times == 0..MaxTime

Range(s) == { s[i] : i \in 1..Len(s) }

Max(a, b) == IF a >= b THEN a ELSE b

\* All orders in which a set of rows can be listed.
Perms(S) ==
    { s \in [1..Cardinality(S) -> S] : \A r \in S : \E i \in 1..Cardinality(S) : s[i] = r }

\* lsst.ts.utils.tai_from_utc: TAI is UTC plus the leap-second offset.
TaiFromUtc(t) == t + 37

\* "SELECT * FROM {table} WHERE time > :t0"
Matches_ge(r, bound) == r.time >= bound
Matches(r, bound) == r.time > bound

\* The statement has no ORDER BY: the source may list the matching rows in
\* any order.
QueryResults(bound) == Perms({ r \in db : Matches(r, bound) })

\* backoff.on_exception retries OperationalError only.
IsTransient_any(e) == TRUE
IsTransient(e) == e = "OperationalError"

\* if self.engine is None: raise RuntimeError("Not connected.")
NotConnected_skip(e) == FALSE
NotConnected(e) == e = "None"

\* self.last_timestamp = max((self.last_timestamp, timestamp))
NewWatermark_assign(wm, ts) == ts
NewWatermark_keep(wm, ts) == wm
NewWatermark(wm, ts) == Max(wm, ts)

\* The ringss_event built by process from one row (plus, for the record of
\* the run, the row's source time, the cycle and the bound of its query).
RingssEvent(row) ==
    [ timestamp |-> TaiFromUtc(row.time),
      hrNum     |-> row.star,
      time      |-> row.time,
      cycle     |-> cycle,
      t0        |-> t0 ]

\* get_simulation_data: time=datetime.utcnow(), star=1234
GetSimulationData == [ star |-> SimStar, time |-> now ]

ErrorKinds == { "OperationalError", "ProgrammingError" }

\* ------------------------------------------------- configuration, db_uri
\* An environment variable that is not set.
NoValue == "<unset>"

\* The variables named in the template, and the values they take here.
EnvNames == { "DB_PASS" }
EnvValues == { NoValue, "user", "p@ss" }

\* config.db_uri, "mysql://{DB_PASS}@localhost/db", as its parts: literal
\* text and {NAME} placeholders.
ConfigDbUri ==
    << [ kind |-> "text", text |-> "mysql://" ],
       [ kind |-> "var",  text |-> "DB_PASS" ],
       [ kind |-> "text", text |-> "@localhost/db" ] >>

\* The text of the template: a placeholder reads {NAME}.
RECURSIVE TemplateText(_)
TemplateText(template) ==
    IF template = << >>
       THEN ""
       ELSE (IF Head(template).kind = "var"
                THEN "{" \o Head(template).text \o "}"
                ELSE Head(template).text) \o TemplateText(Tail(template))

\* os.getenv(key, "")
Getenv(env, key) == IF env[key] = NoValue THEN "" ELSE env[key]

\* urllib.parse.quote on the values used here: "@" is percent-encoded.
Quote(v) == IF v = "p@ss" THEN "p%40ss" ELSE v

\* configure: db_uri.format(**{key: quote(os.getenv(key, ""))})
RECURSIVE Configure(_, _)
Configure(template, env) ==
    IF template = << >>
       THEN ""
       ELSE (IF Head(template).kind = "var"
                THEN Quote(Getenv(env, Head(template).text))
                ELSE Head(template).text) \o Configure(Tail(template), env)

\* descr: return self.config.db_uri
Descr_resolved(template, resolved) == resolved
Descr(template, resolved) == TemplateText(template)

\* connect: create_async_engine(self.db_uri)
ConnectUri_late(resolved, env) == Configure(ConfigDbUri, env)
ConnectUri(resolved, env) == resolved

\* disconnect: if self.engine is not None
HasEngine_always(e) == TRUE
HasEngine(e) == e # "None"

\* The attributes of the client that connect and disconnect can touch.
ClientState == << engine, pool, engine_uri, db_uri, last_timestamp, wrote_event >>

\* ------------------------------------------------------------------- Init
InitClient(env) ==
    /\ simulation_mode \in {0, 1}
    /\ engine = "None"
    /\ pool = "none"
    /\ now = 0
    /\ last_timestamp = now
    /\ t_init = now
    /\ wrote_event = FALSE
    /\ db = {}
    /\ pc = "idle"
    /\ tries = 0
    /\ rows = << >>
    /\ emitted = << >>
    /\ cycle = 0
    /\ t0 = now
    /\ result = << >>
    /\ returned = {}
    /\ outcome = "none"
    /\ nfail = 0
    /\ nhard = 0
    /\ nresult = 0
    /\ reached_db = 0
    /\ wm0 = now
    /\ em0 = 0
    /\ wm_sleep = now
    /\ em_sleep = 0
    /\ stop_phase = "none"
    /\ run_task = "active"
    /\ environ = env
    /\ environ_init = env
    /\ db_uri = Configure(ConfigDbUri, env)
    /\ engine_uri = ""
    /\ disconnect_result = "none"
    /\ lifecycle = "new"
    /\ ndisc = 0
    /\ after_disc = << >>
    /\ slept = 0
    /\ binds = << >>

\* The client as constructed with no variable of the template set (as in
\* the tests of the repository).
Init == InitClient([ k \in EnvNames |-> NoValue ])

\* The client as constructed under any environment.
InitUri == \E env \in [ EnvNames -> EnvValues ] : InitClient(env)

client_vars == << simulation_mode, engine, pool, last_timestamp, wrote_event >>
uri_vars == << environ, db_uri, environ_init >>
conn_vars == << engine_uri, disconnect_result, lifecycle, ndisc, after_disc >>
cycle_vars == << pc, tries, rows, emitted, cycle, t0, result, returned, outcome,
                 nfail, nhard, nresult, reached_db, wm0, em0, wm_sleep, em_sleep,
                 stop_phase, run_task >>

\* ------------------------------------------------------------ environment
\* The clock advances.  Only get_simulation_data reads it after construction,
\* so its later values are followed in simulation mode only.
Tick ==
    /\ simulation_mode = 1
    /\ now < MaxTime
    /\ now' = now + 1
    /\ UNCHANGED << client_vars, cycle_vars, db, t_init,
                    uri_vars, conn_vars, slept, binds >>

\* Somebody inserts a row into the source table.
InsertRow ==
    /\ Cardinality(db) < MaxRows
    /\ \E t \in Times :
          db' = db \cup { [ star |-> Cardinality(db) + 1, time |-> t ] }
    /\ UNCHANGED << client_vars, cycle_vars, now, t_init,
                    uri_vars, conn_vars, slept, binds >>

\* ------------------------------------------------------------- the client
\* SqlalchemyDataClient.connect
Connect ==
    /\ pc = "idle"
    /\ run_task = "active"
    /\ IF simulation_mode = 0
          THEN /\ engine' = "Engine"
               /\ pool' = "none"
               /\ engine_uri' = ConnectUri(db_uri, environ)
          ELSE UNCHANGED << engine, pool, engine_uri >>
    /\ lifecycle' = "connected"
    /\ ndisc' = 0
    /\ UNCHANGED << simulation_mode, last_timestamp, wrote_event, cycle_vars,
                    now, db, t_init, uri_vars, disconnect_result, after_disc,
                    slept, binds >>

\* SqlalchemyDataClient.disconnect.  engine.dispose() closes the pooled
\* connections and leaves self.engine as it is; on None it would raise.
Disconnect ==
    /\ pc = "idle"
    /\ IF HasEngine(engine)
          THEN IF engine = "None"
                  THEN disconnect_result' = "AttributeError" /\ UNCHANGED pool
                  ELSE disconnect_result' = "ok" /\ pool' = "disposed"
          ELSE disconnect_result' = "ok" /\ UNCHANGED pool
    /\ lifecycle' = "disconnected"
    /\ ndisc' = IF ndisc < 2 THEN ndisc + 1 ELSE ndisc
    /\ UNCHANGED << simulation_mode, engine, last_timestamp, wrote_event,
                    cycle_vars, now, db, t_init, uri_vars, engine_uri, slept,
                    binds >>
    /\ after_disc' = IF ndisc = 0 THEN ClientState' ELSE after_disc

\* read_data: if self.simulation_mode == 0
LiveCycle_always(mode) == TRUE
LiveCycle(mode) == mode = 0

\* read_data in simulation mode: if random.randint(1, 6) == 6, one row from
\* get_simulation_data; nothing otherwise.
SimulatedRows(d) == IF d = DieSides THEN << GetSimulationData >> ELSE << >>

\* execute_sql_query: t0 is last_timestamp.iso in simulation mode 1 and
\* last_timestamp.datetime otherwise; both name the same tick.
T0Param_init(wm, mode) == t_init
T0Param(wm, mode) == wm

\* read_data: "for row in rows" takes the rows from the front.
NextRow_last(rs) == rs[Len(rs)]
NextRow(rs) == Head(rs)

\* read_data: asyncio.sleep follows the loop over the rows.
LoopDone_early(rs) == TRUE
LoopDone(rs) == rs = << >>

\* process: last_timestamp is assigned after set_write has returned, so a
\* call that raises leaves it alone.
FailedRowWatermark_early(wm, ts) == Max(wm, ts)
FailedRowWatermark(wm, ts) == wm

\* process: self.wrote_event.set() after set_write has returned.
WroteEvent_unset(w) == w
WroteEvent(w) == TRUE

\* What the backoff wrapper does with an exception raised by its n-th
\* attempt: wait and try again, or let it leave read_data.
AttemptRaises(e, n) ==
    IF IsTransient(e) /\ n < MaxTries
       THEN /\ pc' = "backoff"
            /\ outcome' = outcome
       ELSE /\ pc' = "idle"
            /\ outcome' = e

\* read_data is entered.  Live: the query executor is called.  Simulation:
\* one throw of the die decides whether a row is synthesized.
ReadData ==
    /\ pc = "idle"
    /\ run_task = "active"
    /\ cycle < MaxCycles
    /\ cycle' = cycle + 1
    /\ outcome' = "running"
    /\ tries' = 0
    /\ nfail' = 0
    /\ nhard' = 0
    /\ nresult' = 0
    /\ reached_db' = 0
    /\ wm0' = last_timestamp
    /\ em0' = Len(emitted)
    /\ slept' = 0
    /\ binds' = << >>
    /\ ndisc' = 0
    /\ IF LiveCycle(simulation_mode)
          THEN /\ pc' = "exec"
               /\ rows' = << >>
          ELSE /\ pc' = "rows"
               /\ \E d \in 1..DieSides : rows' = SimulatedRows(d)
    /\ result' = rows'
    /\ UNCHANGED << client_vars, now, db, emitted, t0, returned, wm_sleep,
                    em_sleep, stop_phase, run_task, t_init,
                    uri_vars, engine_uri, disconnect_result, lifecycle,
                    after_disc >>

\* One attempt of execute_sql_query begins: the handle is checked, a
\* connection is asked for and the watermark is bound as :t0.
ExecuteSqlQuery ==
    /\ pc = "exec"
    /\ tries' = tries + 1
    /\ IF NotConnected(engine)
          THEN /\ AttemptRaises("RuntimeError", tries + 1)
               /\ UNCHANGED << t0, reached_db >>
          ELSE /\ pc' = "query"
               /\ t0' = T0Param(last_timestamp, simulation_mode)
               /\ reached_db' = reached_db + 1
               /\ outcome' = outcome
    /\ binds' = IF NotConnected(engine) THEN binds ELSE Append(binds, t0')
    /\ UNCHANGED << client_vars, now, db, rows, emitted, cycle, result, returned,
                    nfail, nhard, nresult, wm0, em0, wm_sleep, em_sleep,
                    stop_phase, run_task, t_init,
                    uri_vars, conn_vars, slept >>

\* The attempt in flight returns result.fetchall().
QueryReturns ==
    /\ pc = "query"
    /\ \E res \in QueryResults(t0) :
          /\ rows' = res
          /\ result' = res
          /\ returned' = returned \cup Range(res)
    /\ nresult' = nresult + 1
    /\ pool' = "open"
    /\ pc' = "rows"
    /\ UNCHANGED << simulation_mode, engine, last_timestamp, wrote_event, now, db,
                    tries, emitted, cycle, t0, outcome, nfail, nhard, reached_db,
                    wm0, em0, wm_sleep, em_sleep, stop_phase, run_task, t_init,
                    uri_vars, conn_vars, slept, binds >>

\* The attempt in flight raises: an OperationalError (connection refused or
\* dropped) or another database error (e.g. a ProgrammingError).
QueryRaises ==
    /\ pc = "query"
    /\ \E e \in ErrorKinds :
          /\ AttemptRaises(e, tries)
          /\ IF e = "OperationalError"
                THEN nfail' = nfail + 1 /\ nhard' = nhard
                ELSE nhard' = nhard + 1 /\ nfail' = nfail
    /\ UNCHANGED << client_vars, now, db, tries, rows, emitted, cycle, t0, result,
                    returned, nresult, reached_db, wm0, em0, wm_sleep, em_sleep,
                    stop_phase, run_task, t_init,
                    uri_vars, conn_vars, slept, binds >>

\* The wait of backoff.expo between two attempts is over.
Backoff ==
    /\ pc = "backoff"
    /\ pc' = "exec"
    /\ UNCHANGED << client_vars, now, db, tries, rows, emitted, cycle, t0, result,
                    returned, outcome, nfail, nhard, nresult, reached_db, wm0,
                    em0, wm_sleep, em_sleep, stop_phase, run_task, t_init,
                    uri_vars, conn_vars, slept, binds >>

\* RingssDataClient.process on the next row, set_write succeeding.
Process ==
    /\ pc = "rows"
    /\ rows # << >>
    /\ emitted' = Append(emitted, RingssEvent(NextRow(rows)))
    /\ last_timestamp' = NewWatermark(last_timestamp, NextRow(rows).time)
    /\ wrote_event' = WroteEvent(wrote_event)
    /\ rows' = Tail(rows)
    /\ UNCHANGED << simulation_mode, engine, pool, now, db, pc, tries, cycle, t0,
                    result, returned, outcome, nfail, nhard, nresult, reached_db,
                    wm0, em0, wm_sleep, em_sleep, stop_phase, run_task, t_init,
                    uri_vars, conn_vars, slept, binds >>

\* RingssDataClient.process on the next row raising (a column missing from the
\* row, a value set_write rejects, a write that fails): nothing is caught in
\* process or in read_data.
ProcessRaises ==
    /\ pc = "rows"
    /\ rows # << >>
    /\ rows' = << >>
    /\ pc' = "idle"
    /\ outcome' = "ProcessError"
    /\ last_timestamp' = FailedRowWatermark(last_timestamp, NextRow(rows).time)
    /\ UNCHANGED << simulation_mode, engine, pool, wrote_event, now, db, tries, emitted, cycle, t0, result,
                    returned, nfail, nhard, nresult, reached_db, wm0, em0,
                    wm_sleep, em_sleep, stop_phase, run_task, t_init,
                    uri_vars, conn_vars, slept, binds >>

\* await asyncio.sleep(self.poll_interval) begins.
Sleep ==
    /\ pc = "rows"
    /\ LoopDone(rows)
    /\ pc' = "sleep"
    /\ slept' = slept + 1
    /\ wm_sleep' = last_timestamp
    /\ em_sleep' = Len(emitted)
    /\ UNCHANGED << client_vars, now, db, tries, rows, emitted, cycle, t0, result,
                    returned, outcome, nfail, nhard, nresult, reached_db, wm0,
                    em0, stop_phase, run_task, t_init,
                    uri_vars, conn_vars, binds >>

\* The sleep is over and read_data returns.
SleepDone ==
    /\ pc = "sleep"
    /\ pc' = "idle"
    /\ outcome' = "ok"
    /\ UNCHANGED << client_vars, now, db, tries, rows, emitted, cycle, t0, result,
                    returned, nfail, nhard, nresult, reached_db, wm0, em0,
                    wm_sleep, em_sleep, stop_phase, run_task, t_init,
                    uri_vars, conn_vars, slept, binds >>

\* A CancelledError raised inside asyncio.sleep: read_data does not catch it,
\* so it unwinds read_data and ends the host's task.
SleepCancelled_swallowed ==
    /\ pc' = "idle"
    /\ outcome' = "ok"
    /\ run_task' = run_task
SleepCancelled ==
    /\ pc' = "idle"
    /\ outcome' = "CancelledError"
    /\ run_task' = "cancelled"

\* The stop signal arrives while read_data sleeps.
StopInSleep ==
    /\ pc = "sleep"
    /\ run_task = "active"
    /\ stop_phase = "none"
    /\ stop_phase' = "sleep"
    /\ SleepCancelled
    /\ UNCHANGED << client_vars, now, db, tries, rows, emitted, cycle, t0, result,
                    returned, nfail, nhard, nresult, reached_db, wm0, em0,
                    wm_sleep, em_sleep, t_init,
                    uri_vars, conn_vars, slept, binds >>

\* The stop signal arrives at another suspension point (a query in flight,
\* the wait between two attempts, set_write of the next row) or between two
\* cycles.
StopElsewhere ==
    /\ \/ pc \in { "query", "backoff", "idle" }
       \/ pc = "rows" /\ rows # << >>
    /\ run_task = "active"
    /\ stop_phase = "none"
    /\ stop_phase' = pc
    /\ run_task' = "cancelled"
    /\ pc' = "idle"
    /\ rows' = << >>
    /\ outcome' = IF pc = "idle" THEN outcome ELSE "CancelledError"
    /\ pool' = IF pc = "query" THEN "dropped" ELSE pool
    /\ UNCHANGED << simulation_mode, engine, last_timestamp, wrote_event,
                    now, db, tries, emitted, cycle, t0, result,
                    returned, nfail, nhard, nresult, reached_db, wm0, em0,
                    wm_sleep, em_sleep, t_init,
                    uri_vars, conn_vars, slept, binds >>

Next ==
    \/ Tick
    \/ InsertRow
    \/ Connect
    \/ Disconnect
    \/ ReadData
    \/ ExecuteSqlQuery
    \/ QueryReturns
    \/ QueryRaises
    \/ Backoff
    \/ Process
    \/ ProcessRaises
    \/ Sleep
    \/ SleepDone
    \/ StopInSleep
    \/ StopElsewhere

Spec == Init /\ [][Next]_vars

\* The process environment changes while the client lives.
SetEnv ==
    /\ \E k \in EnvNames, v \in EnvValues :
          /\ environ[k] # v
          /\ environ' = [ environ EXCEPT ![k] = v ]
    /\ UNCHANGED << client_vars, cycle_vars, now, db, t_init, db_uri,
                    environ_init, conn_vars, slept, binds >>

\* The client constructed under any environment, with the environment
\* changing under it; the source table stays empty.
NextUri ==
    \/ SetEnv
    \/ Tick
    \/ Connect
    \/ Disconnect
    \/ ReadData
    \/ ExecuteSqlQuery
    \/ QueryReturns
    \/ QueryRaises
    \/ Backoff
    \/ Process
    \/ ProcessRaises
    \/ Sleep
    \/ SleepDone
    \/ StopInSleep
    \/ StopElsewhere

SpecUri == InitUri /\ [][NextUri]_vars

\* ================================================================ claims
\* The source row an emitted record was built from.
RowOf(ev) == [ star |-> ev.hrNum, time |-> ev.time ]

\* Number of records emitted for row r.
Emissions(r) == Cardinality({ i \in 1..Len(emitted) : RowOf(emitted[i]) = r })

\* The rows emitted since the current cycle began, in order.
EmittedInCycle == [ i \in 1..(Len(emitted) - em0) |-> RowOf(emitted[em0 + i]) ]

\* A row of the table the next query would return.
Pending == { r \in db : Matches(r, last_timestamp) }

\* C1: the watermark never decreases, whatever step is taken (connect,
\* disconnect, any step of a live or simulated cycle, a failing or retried
\* query, a row older than the watermark).
C1_WatermarkNeverDecreases == [][last_timestamp' >= last_timestamp]_vars

\* C1 witness: the row processed last is older than the watermark.
C1_OlderRowProcessed ==
    /\ Len(emitted) >= 1
    /\ emitted[Len(emitted)].time < last_timestamp

\* C2: once a row has been processed, the watermark equals the largest
\* source timestamp among the rows processed so far, in both modes.
C2_WatermarkIsMaxProcessed ==
    Len(emitted) >= 1 =>
        /\ \E i \in 1..Len(emitted) : emitted[i].time = last_timestamp
        /\ \A i \in 1..Len(emitted) : emitted[i].time <= last_timestamp

\* C2 witness: rows were processed in two different cycles, and the latest
\* cycle is over.
C2_TwoCyclesProcessed ==
    /\ pc = "idle"
    /\ \E i, j \in 1..Len(emitted) : emitted[i].cycle < emitted[j].cycle

\* C3 (as claimed): in live mode a row that a query returned is never
\* emitted twice and is never lost: it has been emitted, or it is still to
\* be handed to process in this cycle, or the next query returns it again.
C3_ReturnedRowEmittedExactlyOnce ==
    (simulation_mode = 0 /\ run_task = "active") =>
        \A r \in returned :
            /\ Emissions(r) <= 1
            /\ \/ Emissions(r) = 1
               \/ r \in Range(rows)
               \/ Matches(r, last_timestamp)

\* C4 (as claimed): with distinct timestamps in the source, the records of
\* the whole run are emitted in non-decreasing source-timestamp order.
C4_EmittedInTimestampOrder ==
    (simulation_mode = 0 /\ \A r, q \in db : r.time = q.time => r = q) =>
        \A i, j \in 1..Len(emitted) : i < j => emitted[i].time <= emitted[j].time

\* C5: a cycle makes at most 2 query attempts; when every attempt raises an
\* OperationalError the second one leaves read_data, with no row processed
\* and the watermark unchanged.
C5_RetryBound ==
    /\ tries <= 2
    /\ reached_db <= 2
    /\ nfail >= 2 => (pc = "idle" /\ outcome = "OperationalError")
    /\ outcome = "OperationalError" =>
          /\ tries = 2
          /\ nfail = 2
          /\ nresult = 0
          /\ Len(emitted) = em0
          /\ last_timestamp = wm0

\* C5 witness: a cycle ended with the OperationalError while the table held
\* a row the query would have returned.
C5_RetriesExhausted ==
    /\ outcome = "OperationalError"
    /\ Pending # {}

\* C6: one OperationalError followed by a successful attempt: two attempts,
\* one result set, no failure of the cycle from the query, nothing emitted
\* and no watermark change until the result is there, and every row of the
\* result emitted once, in the cycle that completes.
C6_OneFailureThenSuccess ==
    /\ nresult <= 1
    /\ (nfail = 1 /\ nresult = 1) => (tries = 2 /\ reached_db = 2)
    /\ nfail = 1 => outcome # "OperationalError"
    /\ pc \in { "exec", "query", "backoff" } =>
          (Len(emitted) = em0 /\ last_timestamp = wm0 /\ nresult = 0)
    /\ (nfail = 1 /\ outcome = "ok") => EmittedInCycle = result

\* C6 witness: a cycle with one failed attempt completed and emitted a
\* result of two rows.
C6_RetriedCycleCompleted ==
    /\ nfail = 1
    /\ outcome = "ok"
    /\ Len(result) >= 2

\* C7: an error of an attempt that is not an OperationalError ends the
\* cycle at once: no further attempt, no row processed, watermark unchanged;
\* as the first error of the cycle it leaves exactly one attempt.
C7_NonTransientNotRetried ==
    nhard >= 1 =>
        /\ nhard = 1
        /\ pc = "idle"
        /\ outcome = "ProgrammingError"
        /\ nresult = 0
        /\ Len(emitted) = em0
        /\ last_timestamp = wm0
        /\ nfail = 0 => tries = 1

\* C7 witness: the first attempt raised a non-transient error while the
\* table held a row the query would have returned.
C7_HardFailure ==
    /\ nhard = 1
    /\ tries = 1
    /\ Pending # {}

\* C8: live mode without a handle: the cycle ends with the not-connected
\* error after one call of the executor, nothing reaches the source, nothing
\* is emitted and the watermark is unchanged.
C8_NotConnectedFailsFast ==
    /\ (simulation_mode = 0 /\ engine = "None") => pc \in { "idle", "exec" }
    /\ (simulation_mode = 0 /\ engine = "None" /\ pc = "idle" /\ cycle >= 1) =>
          outcome = "RuntimeError"
    /\ outcome = "RuntimeError" =>
          /\ tries = 1
          /\ reached_db = 0
          /\ nresult = 0
          /\ Len(emitted) = em0
          /\ last_timestamp = wm0

\* C8 witness: a cycle ended with the not-connected error while the table
\* held a row newer than the watermark.
C8_NotConnectedCycle ==
    /\ outcome = "RuntimeError"
    /\ engine = "None"
    /\ Pending # {}

\* C9: in live mode every emitted row is newer than the watermark its query
\* bound, which is never below the watermark of construction, and is a row
\* of the table.
C9_OnlyRowsNewerThanWatermark ==
    simulation_mode = 0 =>
        \A i \in 1..Len(emitted) :
            /\ emitted[i].time > emitted[i].t0
            /\ emitted[i].t0 >= t_init
            /\ RowOf(emitted[i]) \in db

\* C9 witness: the table holds rows before and after the start of the
\* client, and the emitted records are those of the rows after it.
C9_PastAndFutureRows ==
    /\ simulation_mode = 0
    /\ \E r \in db : r.time <= t_init
    /\ Len(emitted) >= 1
    /\ { RowOf(emitted[i]) : i \in 1..Len(emitted) } = { r \in db : r.time > t_init }

\* C10: after a stop signal that arrived during the sleep, the loop has
\* exited, and the emitted records and the watermark are those the sleep
\* began with.
C10_StopDuringSleep ==
    stop_phase = "sleep" =>
        /\ pc = "idle"
        /\ run_task = "cancelled"
        /\ Len(emitted) = em_sleep
        /\ last_timestamp = wm_sleep

\* C10 witness: stopped during the sleep, after an emission, with a row in
\* the table that another cycle would have emitted.
C10_StoppedWithWorkLeft ==
    /\ stop_phase = "sleep"
    /\ simulation_mode = 0
    /\ Len(emitted) >= 1
    /\ Pending # {}
    /\ cycle < MaxCycles

\* C11: in simulation mode no cycle calls the query executor or touches a
\* connection; a cycle hands at most one synthesized row to process, so at
\* most one record is emitted per cycle, each built by the same mapper.
C11_SimulationNeverQueries ==
    simulation_mode = 1 =>
        /\ pc \notin { "exec", "query", "backoff" }
        /\ tries = 0
        /\ reached_db = 0
        /\ binds = << >>
        /\ engine = "None"
        /\ pool = "none"
        /\ engine_uri = ""
        /\ Len(result) <= 1
        /\ \A i \in 1..Len(emitted) :
              /\ emitted[i].hrNum = SimStar
              /\ emitted[i].timestamp = TaiFromUtc(emitted[i].time)
        /\ \A i, j \in 1..Len(emitted) : emitted[i].cycle = emitted[j].cycle => i = j

\* C11 witness: after connect, a simulated cycle that emitted its row is
\* followed by a completed cycle that emitted nothing.
C11_SimulatedCycles ==
    /\ simulation_mode = 1
    /\ lifecycle = "connected"
    /\ cycle = 2
    /\ outcome = "ok"
    /\ Len(emitted) = 1
    /\ emitted[1].cycle = 1

\* C12 (as claimed): the handle is present exactly after a live-mode connect
\* that no disconnect has followed.
C12_HandleOnlyWhileConnected ==
    (engine # "None") <=> (simulation_mode = 0 /\ lifecycle = "connected")

\* C13: disconnect ends without error in every state; right after it the
\* pool of a held handle is disposed; a second disconnect in a row leaves
\* the client as the first one left it.
C13_DisconnectIdempotent ==
    /\ disconnect_result \in { "none", "ok" }
    /\ ndisc >= 1 =>
          /\ disconnect_result = "ok"
          /\ engine # "None" => pool = "disposed"
          /\ engine = "None" => pool = "none"
    /\ ndisc = 2 => ClientState = after_disc

\* C13 witness: two disconnects in a row after a query in flight was
\* cancelled.
C13_DoubleDisconnectAfterCancel ==
    /\ ndisc = 2
    /\ stop_phase = "query"
    /\ engine # "None"

\* C14: the URI resolved at construction is the one kept and the one every
\* engine is created with, whatever happens to the environment later; an
\* unset variable resolves to the empty string.
C14_UriResolvedOnce ==
    /\ db_uri = Configure(ConfigDbUri, environ_init)
    /\ engine # "None" => engine_uri = Configure(ConfigDbUri, environ_init)
    /\ environ_init["DB_PASS"] = NoValue => db_uri = "mysql://@localhost/db"
    /\ environ_init["DB_PASS"] = "p@ss" => db_uri = "mysql://p%40ss@localhost/db"

\* C14 witness: an engine created, and a cycle run, after the variable of
\* the template changed from unset to a value.
C14_ConnectAfterEnvChange ==
    /\ environ_init["DB_PASS"] = NoValue
    /\ environ["DB_PASS"] = "p@ss"
    /\ engine # "None"
    /\ engine_uri = "mysql://@localhost/db"
    /\ cycle >= 1

\* C15: when process raises, read_data ends at once without sleeping: the
\* rows emitted in the cycle are those returned before the failing row, the
\* watermark is the one these rows gave, and the signal is set only if some
\* record was emitted.
C15_ProcessFailurePropagates ==
    outcome = "ProcessError" =>
        /\ pc = "idle"
        /\ rows = << >>
        /\ slept = 0
        /\ Len(EmittedInCycle) < Len(result)
        /\ \A i \in 1..Len(EmittedInCycle) : EmittedInCycle[i] = result[i]
        /\ \/ last_timestamp = wm0
           \/ \E i \in 1..Len(EmittedInCycle) : EmittedInCycle[i].time = last_timestamp
        /\ wrote_event => Len(emitted) >= 1

\* C15 witness: the first row of a result of two raised, nothing was
\* emitted, and both rows are newer than the watermark.
C15_FirstRowFailed ==
    /\ outcome = "ProcessError"
    /\ simulation_mode = 0
    /\ Len(result) = 2
    /\ Len(emitted) = 0
    /\ ~wrote_event
    /\ \A i \in 1..2 : result[i].time > last_timestamp

\* C16 (as claimed): every invocation of read_data that has ended, whatever
\* its outcome, slept exactly once.
C16_EveryCycleSleepsOnce ==
    outcome \in { "ok", "RuntimeError", "OperationalError", "ProgrammingError",
                  "ProcessError" } => slept = 1

\* C16 (amended): an invocation that returns slept exactly once, after every
\* row of the cycle was processed, and nothing was queried or emitted once
\* the sleep had begun; an invocation that raises did not sleep.
C16_CompletedCycleSleepsOnce ==
    /\ slept <= 1
    /\ outcome = "ok" => slept = 1 /\ EmittedInCycle = result
    /\ outcome \in { "RuntimeError", "OperationalError", "ProgrammingError",
                     "ProcessError" } => slept = 0
    /\ slept = 1 =>
          /\ pc \in { "sleep", "idle" }
          /\ Len(emitted) = em_sleep
          /\ last_timestamp = wm_sleep

\* C16 witness: a live cycle with a retry and two rows has returned.
C16_SleptAfterRows ==
    /\ outcome = "ok"
    /\ simulation_mode = 0
    /\ slept = 1
    /\ tries = 2
    /\ Len(result) = 2

\* C17: in a live cycle the rows handed to process so far, followed by the
\* rows still waiting, are the result in the order the query returned it.
C17_RowsInReturnedOrder ==
    simulation_mode = 0 =>
        /\ Len(EmittedInCycle) <= Len(result)
        /\ \A i \in 1..Len(EmittedInCycle) : EmittedInCycle[i] = result[i]
        /\ pc = "rows" => EmittedInCycle \o rows = result

\* C17 witness: both rows of a result that is not in timestamp order have
\* been processed.
C17_UnsortedResultProcessed ==
    /\ simulation_mode = 0
    /\ Len(result) = 2
    /\ result[1].time > result[2].time
    /\ Len(EmittedInCycle) = 2

\* Attempts of this cycle that have begun and not ended.
InFlight ==
    Len(binds) - nfail - nhard - nresult - (IF stop_phase = "query" THEN 1 ELSE 0)

\* C18: at most one attempt is in flight; every attempt of a cycle binds
\* the watermark the cycle began with; from the first failure to the retry
\* nothing is processed or emitted, the watermark stays and the cycle goes on.
C18_RetryBlocksCycle ==
    /\ InFlight \in { 0, 1 }
    /\ InFlight = 1 <=> pc = "query"
    /\ Len(binds) <= 2
    /\ \A i \in 1..Len(binds) : binds[i] = wm0
    /\ (pc = "backoff" \/ (pc \in { "exec", "query" } /\ nfail >= 1)) =>
          /\ Len(emitted) = em0
          /\ last_timestamp = wm0
          /\ rows = << >>
          /\ slept = 0
          /\ outcome = "running"

\* C18 witness: the retry of a later cycle, whose watermark has moved since
\* construction, is in flight.
C18_RetryInFlight ==
    /\ pc = "query"
    /\ Len(binds) = 2
    /\ wm0 > t_init

\* C19: the descriptive string is the template with its placeholders, the
\* same whatever environment the client was constructed under.
C19_DescrIsTemplate ==
    /\ Descr(ConfigDbUri, db_uri) = "mysql://{DB_PASS}@localhost/db"
    /\ \A env \in [ EnvNames -> EnvValues ] :
          Descr(ConfigDbUri, Configure(ConfigDbUri, env)) = Descr(ConfigDbUri, db_uri)

\* C19 witness: a client whose resolved URI holds a substituted value and
\* that has connected with it.
C19_SecretSubstituted ==
    /\ environ_init["DB_PASS"] = "p@ss"
    /\ engine_uri = "mysql://p%40ss@localhost/db"

\* C20: the signal is set exactly when a record has been emitted, and every
\* emitted row's timestamp is at or below the watermark.
C20_WroteEventAfterEmission ==
    /\ wrote_event <=> Len(emitted) >= 1
    /\ \A i \in 1..Len(emitted) : emitted[i].time <= last_timestamp

\* C20 witness: the first emission has just come, in the second cycle, and
\* the loop over the rows is still running.
C20_SetBySecondCycle ==
    /\ wrote_event
    /\ Len(emitted) = 1
    /\ emitted[1].cycle = 2
    /\ pc = "rows"

====
